---- MODULE Spec2Model ----
(***************************************************************************)
(* Model of vto_growth_app.py, the growth-aware dental VTO calculator.     *)
(*                                                                         *)
(* The program is a Streamlit script: every pass runs the file from top    *)
(* to bottom against the session store, and every input edit starts a new  *)
(* pass.  Millimetre values are Python floats; here they are fixed-point   *)
(* integers, MM units to the millimetre, and the input sets are chosen so  *)
(* that every product and quotient the code forms is exact.                *)
(***************************************************************************)
EXTENDS Integers, Sequences, FiniteSets, TLC

VARIABLES session_state, locals, pc, edits, fn_call, fn_ret

vars == <<session_state, locals, pc, edits, fn_call, fn_ret>>

(***************************************************************************)
(* Fixed-point arithmetic                                                  *)
(***************************************************************************)
\* units per millimetre
MM == 100 * 1000

\* a value given in hundredths of a millimetre (0.05 mm = Hundredths(5))
Hundredths(h) == h * (MM \div 100)

\* a value given in thousandths of a millimetre (0.049 mm = Thousandths(49))
Thousandths(t) == t * (MM \div 1000)

\* x * w for a weight w given in hundredths (0.65 = 65)
Times(x, w) == (x * w) \div 100

abs(x) == IF x < 0 THEN -x ELSE x

(***************************************************************************)
(* Bounds                                                                  *)
(***************************************************************************)
\* input edits in one behaviour
MaxEdits == 2
\* a session input is set to 0 or to +/- MaxInputK half millimetres
MaxInputK == 1
\* treatment durations offered by the widget: 6, 12, .. months
MaxHalfYears == 2
\* arguments of the ledger functions: -MaxLedgerK..MaxLedgerK half millimetres
MaxLedgerK == 1
\* arguments of the allocator and of the sign function, in half millimetres
MaxAllocK == 3
\* durations handed to the growth function: 0, 6, .. months
MaxFnHalfYears == 2
\* custom rates handed to the growth function: 0, 1.25, .. mm/year
MaxRateK == 1

(***************************************************************************)
(* Growth prediction                                                       *)
(***************************************************************************)
GROWTH_DATA ==
  [s \in {"No growth remaining", "CVMS 1", "CVMS 2", "CVMS 3", "CVMS 4",
          "CVMS 5", "CVMS 6", "Custom"} |->
     CASE s = "No growth remaining" ->
            [sagittal |-> 0, vertical |-> 0, transverse |-> 0]
       [] s = "CVMS 1" ->
            [sagittal |-> Hundredths(175), vertical |-> Hundredths(225),
             transverse |-> Hundredths(125)]
       [] s = "CVMS 2" ->
            [sagittal |-> Hundredths(250), vertical |-> Hundredths(225),
             transverse |-> Hundredths(125)]
       [] s = "CVMS 3" ->
            [sagittal |-> Hundredths(375), vertical |-> Hundredths(350),
             transverse |-> Hundredths(175)]
       [] s = "CVMS 4" ->
            [sagittal |-> Hundredths(250), vertical |-> Hundredths(225),
             transverse |-> Hundredths(125)]
       [] s = "CVMS 5" ->
            [sagittal |-> Hundredths(100), vertical |-> Hundredths(125),
             transverse |-> Hundredths(75)]
       [] s = "CVMS 6" ->
            [sagittal |-> Hundredths(25), vertical |-> Hundredths(25),
             transverse |-> Hundredths(25)]
       [] s = "Custom" ->
            [sagittal |-> 0, vertical |-> 0, transverse |-> 0]]

\* the outcome of a failed dictionary lookup
KeyError == [error |-> "KeyError"]

\* rate * (months / 12.0)
OverYears(rate, months) == (rate * months) \div 12

calculate_growth_space_equivalent_jaws_swapped(cvms_stage, treatment_duration_months, include_growth, custom_sagittal, custom_vertical, custom_transverse) ==
  IF ~include_growth
  THEN [upper_total |-> 0, lower_total |-> 0,
        sagittal |-> 0, vertical |-> 0, transverse |-> 0,
        upper_from_sagittal |-> 0, lower_from_sagittal |-> 0,
        upper_from_transverse |-> 0, lower_from_transverse |-> 0]
  ELSE IF cvms_stage # "Custom" /\ cvms_stage \notin DOMAIN GROWTH_DATA
  THEN KeyError
  ELSE
    LET data == IF cvms_stage = "Custom"
                THEN [sagittal |-> custom_sagittal,
                      vertical |-> custom_vertical,
                      transverse |-> custom_transverse]
                ELSE GROWTH_DATA[cvms_stage]
        sagittal_growth == OverYears(data.sagittal, treatment_duration_months)
        vertical_growth == OverYears(data.vertical, treatment_duration_months)
        transverse_growth == OverYears(data.transverse, treatment_duration_months)
        upper_from_sagittal == Times(sagittal_growth, 70)
        lower_from_sagittal == Times(sagittal_growth, 30)
        upper_from_transverse == transverse_growth * 2
        lower_from_transverse == transverse_growth * 2
    IN [upper_total |-> upper_from_sagittal + upper_from_transverse,
        lower_total |-> lower_from_sagittal + lower_from_transverse,
        sagittal |-> sagittal_growth,
        vertical |-> vertical_growth,
        transverse |-> transverse_growth,
        upper_from_sagittal |-> upper_from_sagittal,
        lower_from_sagittal |-> lower_from_sagittal,
        upper_from_transverse |-> upper_from_transverse,
        lower_from_transverse |-> lower_from_transverse]

calculate_growth_space_equivalent_transverse_shared(cvms_stage, treatment_duration_months, include_growth, custom_sagittal, custom_vertical, custom_transverse) ==
  IF ~include_growth
  THEN [upper_total |-> 0, lower_total |-> 0,
        sagittal |-> 0, vertical |-> 0, transverse |-> 0,
        upper_from_sagittal |-> 0, lower_from_sagittal |-> 0,
        upper_from_transverse |-> 0, lower_from_transverse |-> 0]
  ELSE IF cvms_stage # "Custom" /\ cvms_stage \notin DOMAIN GROWTH_DATA
  THEN KeyError
  ELSE
    LET data == IF cvms_stage = "Custom"
                THEN [sagittal |-> custom_sagittal,
                      vertical |-> custom_vertical,
                      transverse |-> custom_transverse]
                ELSE GROWTH_DATA[cvms_stage]
        sagittal_growth == OverYears(data.sagittal, treatment_duration_months)
        vertical_growth == OverYears(data.vertical, treatment_duration_months)
        transverse_growth == OverYears(data.transverse, treatment_duration_months)
        upper_from_sagittal == Times(sagittal_growth, 30)
        lower_from_sagittal == Times(sagittal_growth, 70)
        upper_from_transverse == transverse_growth * 1
        lower_from_transverse == transverse_growth * 1
    IN [upper_total |-> upper_from_sagittal + upper_from_transverse,
        lower_total |-> lower_from_sagittal + lower_from_transverse,
        sagittal |-> sagittal_growth,
        vertical |-> vertical_growth,
        transverse |-> transverse_growth,
        upper_from_sagittal |-> upper_from_sagittal,
        lower_from_sagittal |-> lower_from_sagittal,
        upper_from_transverse |-> upper_from_transverse,
        lower_from_transverse |-> lower_from_transverse]

calculate_growth_space_equivalent_table_only(cvms_stage, treatment_duration_months, include_growth, custom_sagittal, custom_vertical, custom_transverse) ==
  IF ~include_growth
  THEN [upper_total |-> 0, lower_total |-> 0,
        sagittal |-> 0, vertical |-> 0, transverse |-> 0,
        upper_from_sagittal |-> 0, lower_from_sagittal |-> 0,
        upper_from_transverse |-> 0, lower_from_transverse |-> 0]
  ELSE IF cvms_stage # "Custom" /\ cvms_stage \notin DOMAIN GROWTH_DATA
  THEN KeyError
  ELSE
    LET data == GROWTH_DATA[cvms_stage]
        sagittal_growth == OverYears(data.sagittal, treatment_duration_months)
        vertical_growth == OverYears(data.vertical, treatment_duration_months)
        transverse_growth == OverYears(data.transverse, treatment_duration_months)
        upper_from_sagittal == Times(sagittal_growth, 30)
        lower_from_sagittal == Times(sagittal_growth, 70)
        upper_from_transverse == transverse_growth * 2
        lower_from_transverse == transverse_growth * 2
    IN [upper_total |-> upper_from_sagittal + upper_from_transverse,
        lower_total |-> lower_from_sagittal + lower_from_transverse,
        sagittal |-> sagittal_growth,
        vertical |-> vertical_growth,
        transverse |-> transverse_growth,
        upper_from_sagittal |-> upper_from_sagittal,
        lower_from_sagittal |-> lower_from_sagittal,
        upper_from_transverse |-> upper_from_transverse,
        lower_from_transverse |-> lower_from_transverse]

calculate_growth_space_equivalent_defaulting(cvms_stage, treatment_duration_months, include_growth, custom_sagittal, custom_vertical, custom_transverse) ==
  IF ~include_growth
  THEN [upper_total |-> 0, lower_total |-> 0,
        sagittal |-> 0, vertical |-> 0, transverse |-> 0,
        upper_from_sagittal |-> 0, lower_from_sagittal |-> 0,
        upper_from_transverse |-> 0, lower_from_transverse |-> 0]
  ELSE
    LET data == IF cvms_stage = "Custom"
                THEN [sagittal |-> custom_sagittal,
                      vertical |-> custom_vertical,
                      transverse |-> custom_transverse]
                ELSE IF cvms_stage \in DOMAIN GROWTH_DATA
                THEN GROWTH_DATA[cvms_stage]
                ELSE GROWTH_DATA["No growth remaining"]
        sagittal_growth == OverYears(data.sagittal, treatment_duration_months)
        vertical_growth == OverYears(data.vertical, treatment_duration_months)
        transverse_growth == OverYears(data.transverse, treatment_duration_months)
        upper_from_sagittal == Times(sagittal_growth, 30)
        lower_from_sagittal == Times(sagittal_growth, 70)
        upper_from_transverse == transverse_growth * 2
        lower_from_transverse == transverse_growth * 2
    IN [upper_total |-> upper_from_sagittal + upper_from_transverse,
        lower_total |-> lower_from_sagittal + lower_from_transverse,
        sagittal |-> sagittal_growth,
        vertical |-> vertical_growth,
        transverse |-> transverse_growth,
        upper_from_sagittal |-> upper_from_sagittal,
        lower_from_sagittal |-> lower_from_sagittal,
        upper_from_transverse |-> upper_from_transverse,
        lower_from_transverse |-> lower_from_transverse]

calculate_growth_space_equivalent_unguarded(cvms_stage, treatment_duration_months, include_growth, custom_sagittal, custom_vertical, custom_transverse) ==
  IF cvms_stage # "Custom" /\ cvms_stage \notin DOMAIN GROWTH_DATA
  THEN KeyError
  ELSE
    LET data == IF cvms_stage = "Custom"
                THEN [sagittal |-> custom_sagittal,
                      vertical |-> custom_vertical,
                      transverse |-> custom_transverse]
                ELSE GROWTH_DATA[cvms_stage]
        on == IF include_growth THEN 1 ELSE 0
        sagittal_growth == on * OverYears(data.sagittal, treatment_duration_months)
        vertical_growth == OverYears(data.vertical, treatment_duration_months)
        transverse_growth == on * OverYears(data.transverse, treatment_duration_months)
        upper_from_sagittal == Times(sagittal_growth, 30)
        lower_from_sagittal == Times(sagittal_growth, 70)
        upper_from_transverse == transverse_growth * 2
        lower_from_transverse == transverse_growth * 2
    IN [upper_total |-> upper_from_sagittal + upper_from_transverse,
        lower_total |-> lower_from_sagittal + lower_from_transverse,
        sagittal |-> sagittal_growth,
        vertical |-> vertical_growth,
        transverse |-> transverse_growth,
        upper_from_sagittal |-> upper_from_sagittal,
        lower_from_sagittal |-> lower_from_sagittal,
        upper_from_transverse |-> upper_from_transverse,
        lower_from_transverse |-> lower_from_transverse]

calculate_growth_space_equivalent_whole_year(cvms_stage, treatment_duration_months, include_growth, custom_sagittal, custom_vertical, custom_transverse) ==
  IF ~include_growth
  THEN [upper_total |-> 0, lower_total |-> 0,
        sagittal |-> 0, vertical |-> 0, transverse |-> 0,
        upper_from_sagittal |-> 0, lower_from_sagittal |-> 0,
        upper_from_transverse |-> 0, lower_from_transverse |-> 0]
  ELSE IF cvms_stage # "Custom" /\ cvms_stage \notin DOMAIN GROWTH_DATA
  THEN KeyError
  ELSE
    LET data == IF cvms_stage = "Custom"
                THEN [sagittal |-> custom_sagittal,
                      vertical |-> custom_vertical,
                      transverse |-> custom_transverse]
                ELSE GROWTH_DATA[cvms_stage]
        sagittal_growth == OverYears(data.sagittal, IF treatment_duration_months = 0 THEN 12
                          ELSE treatment_duration_months)
        vertical_growth == OverYears(data.vertical, IF treatment_duration_months = 0 THEN 12
                          ELSE treatment_duration_months)
        transverse_growth == OverYears(data.transverse, IF treatment_duration_months = 0 THEN 12
                          ELSE treatment_duration_months)
        upper_from_sagittal == Times(sagittal_growth, 30)
        lower_from_sagittal == Times(sagittal_growth, 70)
        upper_from_transverse == transverse_growth * 2
        lower_from_transverse == transverse_growth * 2
        upper_total == upper_from_sagittal + upper_from_transverse
        lower_total == lower_from_sagittal + lower_from_transverse
    IN [upper_total |-> upper_total,
        lower_total |-> lower_total,
        sagittal |-> sagittal_growth,
        vertical |-> vertical_growth,
        transverse |-> transverse_growth,
        upper_from_sagittal |-> upper_from_sagittal,
        lower_from_sagittal |-> lower_from_sagittal,
        upper_from_transverse |-> upper_from_transverse,
        lower_from_transverse |-> lower_from_transverse]

calculate_growth_space_equivalent(cvms_stage, treatment_duration_months, include_growth, custom_sagittal, custom_vertical, custom_transverse) ==
  IF ~include_growth
  THEN [upper_total |-> 0, lower_total |-> 0,
        sagittal |-> 0, vertical |-> 0, transverse |-> 0,
        upper_from_sagittal |-> 0, lower_from_sagittal |-> 0,
        upper_from_transverse |-> 0, lower_from_transverse |-> 0]
  ELSE IF cvms_stage # "Custom" /\ cvms_stage \notin DOMAIN GROWTH_DATA
  THEN KeyError
  ELSE
    LET data == IF cvms_stage = "Custom"
                THEN [sagittal |-> custom_sagittal,
                      vertical |-> custom_vertical,
                      transverse |-> custom_transverse]
                ELSE GROWTH_DATA[cvms_stage]
        sagittal_growth == OverYears(data.sagittal, treatment_duration_months)
        vertical_growth == OverYears(data.vertical, treatment_duration_months)
        transverse_growth == OverYears(data.transverse, treatment_duration_months)
        upper_from_sagittal == Times(sagittal_growth, 30)
        lower_from_sagittal == Times(sagittal_growth, 70)
        upper_from_transverse == transverse_growth * 2
        lower_from_transverse == transverse_growth * 2
        upper_total == upper_from_sagittal + upper_from_transverse
        lower_total == lower_from_sagittal + lower_from_transverse
    IN [upper_total |-> upper_total,
        lower_total |-> lower_total,
        sagittal |-> sagittal_growth,
        vertical |-> vertical_growth,
        transverse |-> transverse_growth,
        upper_from_sagittal |-> upper_from_sagittal,
        lower_from_sagittal |-> lower_from_sagittal,
        upper_from_transverse |-> upper_from_transverse,
        lower_from_transverse |-> lower_from_transverse]

(***************************************************************************)
(* Session state helper                                                    *)
(***************************************************************************)
\* ss_init(key, value) applied to the store s
ss_init(s, key, value) == IF key \in DOMAIN s THEN s ELSE s @@ (key :> value)

\* st.session_state.get(key, default)
ss_get(s, key, default) == IF key \in DOMAIN s THEN s[key] ELSE default

(***************************************************************************)
(* Dolphin sign convention helpers                                         *)
(***************************************************************************)
Balanced == "~ balanced (near 0)"
Crowding == "Still short on space (crowding remains)"
Spacing == "Excess space (spacing remains)"

remaining_status_wide(x) ==
  IF abs(x) < Hundredths(50) THEN Balanced
  ELSE IF x < 0 THEN Crowding
  ELSE Spacing

remaining_status(x) ==
  IF abs(x) < Hundredths(5) THEN Balanced
  ELSE IF x < 0 THEN Crowding
  ELSE Spacing

compute_initial_discrepancy_unsigned(ant_cs, cos, midline_component, incisor_pos) ==
  ant_cs + cos + abs(midline_component) + incisor_pos

compute_initial_discrepancy(ant_cs, cos, midline_component, incisor_pos) ==
  ant_cs + cos + midline_component + incisor_pos

compute_remaining_dolphin_clamped(initial, strip, expansion, distal, extraction, growth_space) ==
  LET gained == strip + expansion + distal + extraction + growth_space
      remaining == initial + gained
  IN <<gained, IF remaining > 0 THEN 0 ELSE remaining>>

compute_remaining_dolphin_subtracting(initial, strip, expansion, distal, extraction, growth_space) ==
  LET gained == strip + expansion + distal + extraction + growth_space
      remaining == initial - gained
  IN <<gained, remaining>>

compute_remaining_dolphin(initial, strip, expansion, distal, extraction, growth_space) ==
  LET gained == strip + expansion + distal + extraction + growth_space
      remaining == initial + gained
  IN <<gained, remaining>>

(***************************************************************************)
(* Proposed-movement diagram                                               *)
(***************************************************************************)
\* x positions of R6, R3, Inc, L3, L6 (tooth_idx 0..4), in pixels
xs == <<140, 350, 500, 650, 860>>

\* yU_arrow and yL_arrow, in pixels
ArrowRows == {330, 660}

clean(v) == IF abs(v) < Hundredths(5) THEN 0 ELSE v

\* the arrow of one tooth: no element when the movement is essentially zero,
\* otherwise a line from x1 to x2 with the arrowhead at x2; x1 and x2 are in
\* pixels times MM
arrow(x, y, v, tooth_idx) ==
  LET cv == clean(v)
      len == abs(cv) * 18
      L == IF len > 70 * MM THEN 70 * MM
           ELSE IF len < 22 * MM THEN 22 * MM ELSE len
      rightwards == [drawn |-> TRUE, x1 |-> (x - 10) * MM,
                     x2 |-> (x - 10) * MM + L, y |-> y]
      leftwards == [drawn |-> TRUE, x1 |-> (x + 10) * MM,
                    x2 |-> (x + 10) * MM - L, y |-> y]
  IN IF abs(cv) < Hundredths(5) THEN [drawn |-> FALSE]
     ELSE IF tooth_idx = 0 THEN (IF cv > 0 THEN rightwards ELSE leftwards)
     ELSE IF tooth_idx = 1 THEN (IF cv > 0 THEN rightwards ELSE leftwards)
     ELSE IF tooth_idx = 3 THEN (IF cv > 0 THEN leftwards ELSE rightwards)
     ELSE IF tooth_idx = 4 THEN (IF cv > 0 THEN leftwards ELSE rightwards)
     ELSE (IF cv > 0 THEN leftwards ELSE rightwards)

(***************************************************************************)
(* Movement allocator                                                      *)
(***************************************************************************)
expected_movement_allocation_weighted(remaining, treat_to) ==
  LET mag == abs(remaining)
      w == IF treat_to = "Class II" THEN <<65, 35>>
           ELSE IF treat_to = "Class III" THEN <<45, 55>>
           ELSE <<55, 45>>
      anterior == Times(mag, w[1])
      posterior == Times(mag, w[2])
  IN [m6 |-> posterior, c3 |-> Times(anterior, 45), inc |-> Times(anterior, 55)]

expected_movement_allocation_swapped(remaining, treat_to) ==
  LET mag == abs(remaining) IN
  IF remaining < 0
  THEN [m6 |-> mag, c3 |-> mag, inc |-> mag]
  ELSE
    LET w == IF treat_to = "Class II" THEN <<65, 35>>
             ELSE IF treat_to = "Class III" THEN <<45, 55>>
             ELSE <<55, 45>>
        anterior == Times(mag, w[1])
        posterior == Times(mag, w[2])
        inc == Times(anterior, 45)
        canine == Times(anterior, 55)
        molar == posterior
    IN [m6 |-> molar, c3 |-> canine, inc |-> inc]

expected_movement_allocation_normalised(remaining, treat_to) ==
  LET mag == abs(remaining) IN
  IF remaining = 0
  THEN [error |-> "ZeroDivisionError"]
  ELSE IF remaining < 0
  THEN [m6 |-> mag, c3 |-> mag, inc |-> mag]
  ELSE
    LET w == IF treat_to = "Class II" THEN <<65, 35>>
             ELSE IF treat_to = "Class III" THEN <<45, 55>>
             ELSE <<55, 45>>
        anterior == Times(mag, w[1])
        posterior == Times(mag, w[2])
    IN [m6 |-> posterior, c3 |-> Times(anterior, 45), inc |-> Times(anterior, 55)]

\* the result dict {"6": molar, "3": canine, "inc": inc} as the record
\* [m6, c3, inc]
expected_movement_allocation(remaining, treat_to) ==
  LET mag == abs(remaining) IN
  IF remaining < 0
  THEN [m6 |-> mag, c3 |-> mag, inc |-> mag]
  ELSE
    LET w == IF treat_to = "Class II" THEN <<65, 35>>
             ELSE IF treat_to = "Class III" THEN <<45, 55>>
             ELSE <<55, 45>>
        ant_w == w[1]
        post_w == w[2]
        anterior == Times(mag, ant_w)
        posterior == Times(mag, post_w)
        inc == Times(anterior, 55)
        canine == Times(anterior, 45)
        molar == posterior
    IN [m6 |-> molar, c3 |-> canine, inc |-> inc]

\* returns -1, 0 or 1 for the floats -1.0, 0.0 and 1.0
movement_sign(rem, side, tooth_type) ==
  IF rem = 0 THEN 0
  ELSE IF rem < 0 THEN -1
  ELSE IF tooth_type = "6" THEN 1
  ELSE -1

(***************************************************************************)
(* The evaluation pass                                                     *)
(***************************************************************************)
Sides == {"R", "L"}

\* the session keys of the per-side entries, by side
SideKeys ==
  [R |->
     [ant_cs_33 |-> "ant_cs_33_R", cos_bicusp_77 |-> "cos_bicusp_77_R",
      cos_molar_77 |-> "cos_molar_77_R", cos_33 |-> "cos_33_R",
      inc_pos_33 |-> "inc_pos_33_R", strip_33 |-> "strip_33_R",
      strip_77 |-> "strip_77_R", exp_33 |-> "exp_33_R",
      exp_77 |-> "exp_77_R", dist_77 |-> "dist_77_R", ext_33 |-> "ext_33_R",
      ext_77 |-> "ext_77_R", remaining_L |-> "remaining_L_R",
      remaining_77 |-> "remaining_77_R",
      upper_extraction |-> "upper_extraction_R"],
   L |->
     [ant_cs_33 |-> "ant_cs_33_L", cos_bicusp_77 |-> "cos_bicusp_77_L",
      cos_molar_77 |-> "cos_molar_77_L", cos_33 |-> "cos_33_L",
      inc_pos_33 |-> "inc_pos_33_L", strip_33 |-> "strip_33_L",
      strip_77 |-> "strip_77_L", exp_33 |-> "exp_33_L",
      exp_77 |-> "exp_77_L", dist_77 |-> "dist_77_L", ext_33 |-> "ext_33_L",
      ext_77 |-> "ext_77_L", remaining_L |-> "remaining_L_L",
      remaining_77 |-> "remaining_77_L",
      upper_extraction |-> "upper_extraction_L"]]

\* the key of a per-side session entry, e.g. Key("strip_33", "R")
Key(name, side) == SideKeys[side][name]

\* the ss_init defaults at the top of the script
Defaults ==
  [include_growth |-> TRUE,
   r6_init |-> 0, l6_init |-> 0,
   upper_midline_mm |-> 0,
   lower_dental_midline_mm |-> 0, lower_skeletal_midline_mm |-> 0,
   cvms_stage |-> "CVMS 3",
   treatment_duration |-> 24,
   custom_sagittal |-> Hundredths(250),
   custom_vertical |-> Hundredths(200),
   custom_transverse |-> Hundredths(100),
   remaining_U_R |-> 0, remaining_U_L |-> 0,
   remaining_L_R |-> 0, remaining_L_L |-> 0]

\* the ss_init defaults of the Step 2 inputs
Step2Defaults ==
  [ant_cs_33_R |-> 0, ant_cs_33_L |-> 0,
   cos_bicusp_77_R |-> 0, cos_bicusp_77_L |-> 0,
   cos_molar_77_R |-> 0, cos_molar_77_L |-> 0,
   cos_33_R |-> 0, cos_33_L |-> 0,
   inc_pos_33_R |-> 0, inc_pos_33_L |-> 0,
   strip_33_R |-> 0, strip_33_L |-> 0,
   strip_77_R |-> 0, strip_77_L |-> 0,
   exp_33_R |-> 0, exp_33_L |-> 0,
   exp_77_R |-> 0, exp_77_L |-> 0,
   dist_33_R |-> 0, dist_33_L |-> 0,
   dist_77_R |-> 0, dist_77_L |-> 0,
   ext_33_R |-> 0, ext_33_L |-> 0,
   ext_77_R |-> 0, ext_77_L |-> 0]

\* the Step 3 widgets' initial values
Step3Defaults ==
  [treat_to |-> "Class I", upper_extraction_R |-> 0, upper_extraction_L |-> 0]

\* ss_init of every key of d, in one go
ss_init_all(s, d) == s @@ d

\* assignments new made on top of the bindings old
Assign(old, new) == new @@ old

NoLocals == [n \in {} |-> 0]

\* the order in which one pass runs the script's sections
next_stage_movement_first(stage) ==
  CASE stage = "start" -> "step3"
    [] stage = "step3" -> "step2_growth"
    [] stage = "step2_growth" -> "step2_ledger"
    [] stage = "step2_ledger" -> "idle"

next_stage(stage) ==
  CASE stage = "start" -> "step2_growth"
    [] stage = "step2_growth" -> "step2_ledger"
    [] stage = "step2_ledger" -> "step3"
    [] stage = "step3" -> "idle"

\* the growth computation of a tab, from the session store
growth_calc_of(s, include_growth) ==
  calculate_growth_space_equivalent(
    s["cvms_stage"], s["treatment_duration"], include_growth,
    ss_get(s, "custom_sagittal", 0), ss_get(s, "custom_vertical", 0),
    ss_get(s, "custom_transverse", 0))

\* the midline component of a side: R uses +midline, L uses -midline
midline_component(side, lower_dental_midline) ==
  IF side = "R" THEN lower_dental_midline ELSE -lower_dental_midline

initial_33(s, side, lower_dental_midline) ==
  s[Key("ant_cs_33", side)] + s[Key("cos_33", side)]
    + midline_component(side, lower_dental_midline)
    + s[Key("inc_pos_33", side)]

initial_77_posterior_only(s, side, lower_dental_midline) ==
  s[Key("cos_bicusp_77", side)] + s[Key("cos_molar_77", side)]

initial_77(s, side, lower_dental_midline) ==
  s[Key("ant_cs_33", side)] + s[Key("cos_bicusp_77", side)]
    + s[Key("cos_molar_77", side)] + s[Key("cos_33", side)]
    + midline_component(side, lower_dental_midline)
    + s[Key("inc_pos_33", side)]

strip_autopopulate_accumulating(s) ==
  LET strip_33_R == ss_get(s, "strip_33_R", 0)
      strip_33_L == ss_get(s, "strip_33_L", 0)
      strip_77_R_current == ss_get(s, "strip_77_R", 0)
      strip_77_L_current == ss_get(s, "strip_77_L", 0)
      s1 == IF strip_33_R > 0
            THEN Assign(s, "strip_77_R" :> strip_77_R_current + strip_33_R)
            ELSE s
  IN IF strip_33_L > 0
     THEN Assign(s1, "strip_77_L" :> strip_77_L_current + strip_33_L) ELSE s1

strip_autopopulate_synced(s) ==
  Assign(s, ("strip_77_R" :> ss_get(s, "strip_33_R", 0))
              @@ ("strip_77_L" :> ss_get(s, "strip_33_L", 0)))

\* strip_77 is raised to strip_33 where it is smaller
strip_autopopulate(s) ==
  LET strip_33_R == ss_get(s, "strip_33_R", 0)
      strip_33_L == ss_get(s, "strip_33_L", 0)
      strip_77_R_current == ss_get(s, "strip_77_R", 0)
      strip_77_L_current == ss_get(s, "strip_77_L", 0)
      s1 == IF strip_77_R_current < strip_33_R
            THEN Assign(s, "strip_77_R" :> strip_33_R) ELSE s
  IN IF strip_77_L_current < strip_33_L
     THEN Assign(s1, "strip_77_L" :> strip_33_L) ELSE s1

gained_33_whole_growth(s, side, growth_L_33) ==
  s[Key("strip_33", side)] + s[Key("exp_33", side)] + s[Key("ext_33", side)]
    + 2 * growth_L_33

gained_33(s, side, growth_L_33) ==
  s[Key("strip_33", side)] + s[Key("exp_33", side)] + s[Key("ext_33", side)]
    + growth_L_33

gained_77_pooled(s, side, growth_L_77) ==
  s[Key("strip_77", side)] + s[Key("exp_77", side)]
    + s["dist_77_R"] + s["dist_77_L"]
    + s[Key("ext_77", side)] + growth_L_77

gained_77_grown(s, side, growth_L_77) ==
  s[Key("strip_77", side)] + s[Key("exp_77", side)] + s[Key("dist_77", side)]
    + s[Key("ext_77", side)]
    + growth_calc_of(s, s["include_growth"]).lower_total \div 2

gained_77(s, side, growth_L_77) ==
  s[Key("strip_77", side)] + s[Key("exp_77", side)] + s[Key("dist_77", side)]
    + s[Key("ext_77", side)] + growth_L_77

stored_remaining_77_whole(remaining_77, cos_molar_77) == remaining_77

stored_remaining_77_added(remaining_77, cos_molar_77) == remaining_77 + cos_molar_77

\* the 7-7 value stored for Step 3
stored_remaining_77(remaining_77, cos_molar_77) == remaining_77 - cos_molar_77

midline_correction_allocated(dental_midline) == dental_midline

\* the incisor entry of an arch
midline_correction(dental_midline) == -dental_midline

upper_canine_movement_unspaced(u_6, upper_premolar_space) == u_6

\* canine movement = molar movement - extraction space
upper_canine_movement(u_6, upper_premolar_space) == u_6 - upper_premolar_space

class_adjustment_symmetric(treat_to) ==
  IF treat_to = "Class II" THEN 7 * MM
  ELSE IF treat_to = "Class III" THEN -7 * MM
  ELSE 0

class_adjustment(treat_to) ==
  IF treat_to = "Class II" THEN 7 * MM
  ELSE IF treat_to = "Class III" THEN -6 * MM
  ELSE 0

\* the ledger columns and the movements of one side, from its initial and
\* gained values, its C/S Molars value, its first molar's initial position,
\* its upper extraction space and the class adjustment
side_ledger(i33, i77, g33, g77, cos_molar_77, init_6, upper_extraction, adj) ==
  [initial_33 |-> i33, initial_77 |-> i77,
   gained_33 |-> g33, gained_77 |-> g77,
   remaining_33 |-> i33 + g33, remaining_77 |-> i77 + g77,
   stored_77 |-> stored_remaining_77(i77 + g77, cos_molar_77),
   c3 |-> i33 + g33,
   m6 |-> (i33 + g33)
            + (stored_remaining_77(i77 + g77, cos_molar_77) - (i33 + g33)),
   u6 |-> (i33 + g33)
            + (stored_remaining_77(i77 + g77, cos_molar_77) - (i33 + g33))
            - init_6 + adj,
   u3 |-> (i33 + g33)
            + (stored_remaining_77(i77 + g77, cos_molar_77) - (i33 + g33))
            - init_6 - upper_extraction + adj]

\* the ledger and movement values one pass over the store s gives the side
\* sd: the Step 2 ledger columns, the value stored for Step 3, and the lower
\* canine (c3), lower molar (m6), upper molar (u6) and upper canine (u3)
\* movements
side_values(s, sd) ==
  side_ledger(
    initial_33(s, sd, s["lower_dental_midline_mm"]),
    initial_77(s, sd, s["lower_dental_midline_mm"]),
    gained_33(s, sd,
              growth_calc_of(s, s["include_growth"]).lower_total \div 2),
    gained_77(strip_autopopulate(s), sd, 0),
    s[Key("cos_molar_77", sd)],
    s[IF sd = "R" THEN "r6_init" ELSE "l6_init"],
    s[Key("upper_extraction", sd)],
    class_adjustment(s["treat_to"]))

(***************************************************************************)
(* Actions of the application                                              *)
(***************************************************************************)
\* lines 630-891: defaults, the sidebar toggle, Step 1 and the growth
\* assessment tab
RunStep1 ==
  /\ pc = "start"
  /\ \E s1 \in {ss_init_all(session_state, Defaults)} :
     \E include_growth \in {s1["include_growth"]} :
       /\ session_state' = s1
       /\ locals' = Assign(locals,
            [include_growth |-> include_growth,
             cvms_stage |-> s1["cvms_stage"],
             treatment_duration |-> s1["treatment_duration"],
             growth_calc |-> growth_calc_of(s1, include_growth)])
  /\ pc' = next_stage("start")
  /\ UNCHANGED <<edits, fn_call, fn_ret>>

\* lines 900-925: the growth space of the lower ledger
RunStep2Growth ==
  /\ pc = "step2_growth"
  /\ \E growth_calc \in {growth_calc_of(session_state, locals["include_growth"])} :
     \E growth_L_total \in {growth_calc.lower_total} :
       locals' = Assign(locals,
          [cvms_stage |-> session_state["cvms_stage"],
           treatment_duration |-> session_state["treatment_duration"],
           growth_calc |-> growth_calc,
           growth_L_total |-> growth_L_total,
           growth_L_33 |-> growth_L_total \div 2,
           growth_L_77 |-> 0,
           lower_dental_midline |-> session_state["lower_dental_midline_mm"]])
  /\ pc' = next_stage("step2_growth")
  /\ UNCHANGED <<session_state, edits, fn_call, fn_ret>>

\* lines 978-1274: the lower ledger
RunStep2Ledger ==
  /\ pc = "step2_ledger"
  /\ \E s1 \in {ss_init_all(session_state, Step2Defaults)} :
     \E s2 \in {strip_autopopulate(s1)} :
     \E ml \in {locals["lower_dental_midline"]} :
     \E initial_33_R \in {initial_33(s1, "R", ml)} :
     \E initial_33_L \in {initial_33(s1, "L", ml)} :
     \E initial_77_R \in {initial_77(s1, "R", ml)} :
     \E initial_77_L \in {initial_77(s1, "L", ml)} :
     \E gained_33_R \in {gained_33(s2, "R", locals["growth_L_33"])} :
     \E gained_33_L \in {gained_33(s2, "L", locals["growth_L_33"])} :
     \E gained_77_R \in {gained_77(s2, "R", locals["growth_L_77"])} :
     \E gained_77_L \in {gained_77(s2, "L", locals["growth_L_77"])} :
     \E remaining_33_R \in {initial_33_R + gained_33_R} :
     \E remaining_33_L \in {initial_33_L + gained_33_L} :
     \E remaining_77_R \in {initial_77_R + gained_77_R} :
     \E remaining_77_L \in {initial_77_L + gained_77_L} :
       /\ session_state' = Assign(s2,
            [remaining_L_R |-> remaining_33_R,
             remaining_L_L |-> remaining_33_L,
             remaining_77_R |->
               stored_remaining_77(remaining_77_R, s2["cos_molar_77_R"]),
             remaining_77_L |->
               stored_remaining_77(remaining_77_L, s2["cos_molar_77_L"])])
       /\ locals' = Assign(locals,
            [initial_33_R |-> initial_33_R, initial_33_L |-> initial_33_L,
             initial_77_R |-> initial_77_R, initial_77_L |-> initial_77_L,
             gained_33_R |-> gained_33_R, gained_33_L |-> gained_33_L,
             gained_77_R |-> gained_77_R, gained_77_L |-> gained_77_L,
             remaining_33_R |-> remaining_33_R,
             remaining_33_L |-> remaining_33_L,
             remaining_77_R |-> remaining_77_R,
             remaining_77_L |-> remaining_77_L])
  /\ pc' = next_stage("step2_ledger")
  /\ UNCHANGED <<edits, fn_call, fn_ret>>

\* lines 1300-1439: the movement step
RunStep3 ==
  /\ pc = "step3"
  /\ \E s1 \in {ss_init_all(session_state, Step3Defaults)} :
     \E treat_to \in {s1["treat_to"]} :
     \E L_remaining_33_R \in {ss_get(s1, "remaining_L_R", 0)} :
     \E L_remaining_33_L \in {ss_get(s1, "remaining_L_L", 0)} :
     \E L_remaining_77_R \in {ss_get(s1, "remaining_77_R", 0)} :
     \E L_remaining_77_L \in {ss_get(s1, "remaining_77_L", 0)} :
     \E lower_dental_midline \in {ss_get(s1, "lower_dental_midline_mm", 0)} :
     \E l_inc \in {midline_correction(lower_dental_midline)} :
     \E l_r3 \in {L_remaining_33_R} :
     \E l_l3 \in {L_remaining_33_L} :
     \E lower_premolar_space_R \in {L_remaining_77_R - L_remaining_33_R} :
     \E lower_premolar_space_L \in {L_remaining_77_L - L_remaining_33_L} :
     \E l_r6 \in {l_r3 + lower_premolar_space_R} :
     \E l_l6 \in {l_l3 + lower_premolar_space_L} :
     \E u_r6 \in {l_r6 - ss_get(s1, "r6_init", 0)} :
     \E u_l6 \in {l_l6 - ss_get(s1, "l6_init", 0)} :
     \E u_r3 \in {upper_canine_movement(
                      u_r6, ss_get(s1, "upper_extraction_R", 0))} :
     \E u_l3 \in {upper_canine_movement(
                      u_l6, ss_get(s1, "upper_extraction_L", 0))} :
     \E adj \in {class_adjustment(treat_to)} :
     \E upper_midline \in {ss_get(s1, "upper_midline_mm", 0)} :
       /\ session_state' = s1
       /\ locals' = Assign(locals,
            [treat_to |-> treat_to,
             L_remaining_33_R |-> L_remaining_33_R,
             L_remaining_33_L |-> L_remaining_33_L,
             L_remaining_77_R |-> L_remaining_77_R,
             L_remaining_77_L |-> L_remaining_77_L,
             class_adjustment |-> adj,
             l_inc |-> l_inc, l_r3 |-> l_r3, l_l3 |-> l_l3,
             l_r6 |-> l_r6, l_l6 |-> l_l6,
             u_r6 |-> u_r6 + adj, u_l6 |-> u_l6 + adj,
             u_r3 |-> u_r3 + adj, u_l3 |-> u_l3 + adj,
             u_inc |-> midline_correction(upper_midline)])
  /\ pc' = next_stage("step3")
  /\ UNCHANGED <<edits, fn_call, fn_ret>>

\* values a millimetre input can be set to
InputVals == {k * MaxInputK * (MM \div 2) : k \in {-1, 0, 1}}

SignedKeys ==
  {"r6_init", "l6_init", "upper_midline_mm", "lower_dental_midline_mm",
   "lower_skeletal_midline_mm",
   "ant_cs_33_R", "ant_cs_33_L", "cos_bicusp_77_R", "cos_bicusp_77_L",
   "cos_molar_77_R", "cos_molar_77_L", "cos_33_R", "cos_33_L",
   "inc_pos_33_R", "inc_pos_33_L", "strip_33_R", "strip_33_L",
   "strip_77_R", "strip_77_L", "exp_33_R", "exp_33_L", "exp_77_R", "exp_77_L",
   "dist_77_R", "dist_77_L", "ext_33_R", "ext_33_L", "ext_77_R", "ext_77_L"}

CustomKeys == {"custom_sagittal", "custom_vertical", "custom_transverse"}

\* the values the widget of key k accepts
WidgetValues(k) ==
  CASE k \in SignedKeys -> InputVals
    [] k \in {"upper_extraction_R", "upper_extraction_L"} ->
         {v \in InputVals : v >= 0}
    [] k = "include_growth" -> BOOLEAN
    [] k = "cvms_stage" -> DOMAIN GROWTH_DATA
    [] k = "treatment_duration" -> {6 * h : h \in 1..MaxHalfYears}
    [] k \in CustomKeys -> {r * Hundredths(125) : r \in 0..MaxRateK}
    [] k = "treat_to" -> {"Class I", "Class II", "Class III"}

WidgetKeys ==
  SignedKeys \cup CustomKeys
    \cup {"upper_extraction_R", "upper_extraction_L", "include_growth",
          "cvms_stage", "treatment_duration", "treat_to"}

\* the user changes one input of the rendered page, which starts a new pass
Edit ==
  /\ pc = "idle"
  /\ edits < MaxEdits
  /\ \E k \in WidgetKeys \cap DOMAIN session_state :
       /\ k \in CustomKeys => session_state["cvms_stage"] = "Custom"
       /\ \E v \in WidgetValues(k) :
            /\ v # session_state[k]
            /\ session_state' = [session_state EXCEPT ![k] = v]
  /\ locals' = NoLocals
  /\ pc' = "start"
  /\ edits' = edits + 1
  /\ UNCHANGED <<fn_call, fn_ret>>

\* the script is run again with no edit
Rerun ==
  /\ pc = "idle"
  /\ locals' = NoLocals
  /\ pc' = "start"
  /\ UNCHANGED <<session_state, edits, fn_call, fn_ret>>

NoCall == [fn |-> "none", args |-> <<>>]
NoRet == [done |-> FALSE, value |-> 0]

Init ==
  /\ session_state = NoLocals
  /\ locals = NoLocals
  /\ pc = "start"
  /\ edits = 0
  /\ fn_call = NoCall
  /\ fn_ret = NoRet

Next ==
  \/ RunStep1
  \/ RunStep2Growth
  \/ RunStep2Ledger
  \/ RunStep3
  \/ Edit
  \/ Rerun

Spec == Init /\ [][Next]_vars

(***************************************************************************)
(* The helper functions called on their own                                *)
(***************************************************************************)
LedgerVals == {k * (MM \div 2) : k \in -MaxLedgerK..MaxLedgerK}

AllocVals == {k * (MM \div 2) : k \in -MaxAllocK..MaxAllocK}

\* values on both sides of the 0.05 mm dead-band
StatusVals ==
  AllocVals \cup {Thousandths(t) : t \in {-51, -50, -49, -1, 1, 49, 50, 51}}

FnStages == DOMAIN GROWTH_DATA \cup {"CVMS 7"}

FnMonths == {6 * h : h \in 0..MaxFnHalfYears}

FnRates == {r * Hundredths(125) : r \in 0..MaxRateK}

FnGoals == {"Class I", "Class II", "Class III", "Class IV"}

FnSides == {"Right", "Left"}

FnTeeth == {"6", "3", "inc"}

Call(f, a) == [fn |-> f, args |-> a]

\* the calls of the worked Lower-Right example: components -3.0, -1.0, +0.5
\* and 0.0, then initial -3.5 with strip 0.5, expansion 1.0 and growth 0.5
ScenarioCalls ==
  {Call("compute_initial_discrepancy", <<-3 * MM, -MM, MM \div 2, 0>>),
   Call("compute_remaining_dolphin",
        <<-7 * (MM \div 2), MM \div 2, MM, 0, 0, MM \div 2>>)}

InitFn ==
  /\ session_state = NoLocals
  /\ locals = NoLocals
  /\ pc = "fn"
  /\ edits = 0
  /\ fn_ret = NoRet
  /\ \/ \E st \in FnStages, m \in FnMonths, g \in BOOLEAN,
           cs \in FnRates, cv \in FnRates, ct \in FnRates :
          fn_call = Call("calculate_growth_space_equivalent",
                         <<st, m, g, cs, cv, ct>>)
     \/ \E x \in StatusVals : fn_call = Call("remaining_status", <<x>>)
     \/ \E a \in LedgerVals, b \in LedgerVals, c \in LedgerVals, d \in LedgerVals :
          fn_call = Call("compute_initial_discrepancy", <<a, b, c, d>>)
     \/ \E i \in LedgerVals, s \in LedgerVals, e \in LedgerVals,
           d \in LedgerVals, x \in LedgerVals, g \in LedgerVals :
          fn_call = Call("compute_remaining_dolphin", <<i, s, e, d, x, g>>)
     \/ \E r \in AllocVals, t \in FnGoals :
          fn_call = Call("expected_movement_allocation", <<r, t>>)
     \/ \E r \in StatusVals, sd \in FnSides, t \in FnTeeth :
          fn_call = Call("movement_sign", <<r, sd, t>>)
     \/ fn_call \in ScenarioCalls
     \/ \E i \in 0..4, y \in ArrowRows, v \in StatusVals :
          fn_call = Call("arrow", <<xs[i + 1], y, v, i>>)

Returns(f, v) ==
  /\ pc = "fn"
  /\ fn_call.fn = f
  /\ ~fn_ret.done
  /\ fn_ret' = [done |-> TRUE, value |-> v]
  /\ UNCHANGED <<session_state, locals, pc, edits, fn_call>>

CallGrowth ==
  /\ fn_call.fn = "calculate_growth_space_equivalent"
  /\ Returns("calculate_growth_space_equivalent",
             calculate_growth_space_equivalent(
               fn_call.args[1], fn_call.args[2], fn_call.args[3],
               fn_call.args[4], fn_call.args[5], fn_call.args[6]))

CallStatus ==
  /\ fn_call.fn = "remaining_status"
  /\ Returns("remaining_status", remaining_status(fn_call.args[1]))

CallInitial ==
  /\ fn_call.fn = "compute_initial_discrepancy"
  /\ Returns("compute_initial_discrepancy",
             compute_initial_discrepancy(fn_call.args[1], fn_call.args[2],
                                         fn_call.args[3], fn_call.args[4]))

CallRemaining ==
  /\ fn_call.fn = "compute_remaining_dolphin"
  /\ Returns("compute_remaining_dolphin",
             compute_remaining_dolphin(fn_call.args[1], fn_call.args[2],
                                       fn_call.args[3], fn_call.args[4],
                                       fn_call.args[5], fn_call.args[6]))

CallAllocation ==
  /\ fn_call.fn = "expected_movement_allocation"
  /\ Returns("expected_movement_allocation",
             expected_movement_allocation(fn_call.args[1], fn_call.args[2]))

CallSign ==
  /\ fn_call.fn = "movement_sign"
  /\ Returns("movement_sign",
             movement_sign(fn_call.args[1], fn_call.args[2], fn_call.args[3]))

CallArrow ==
  /\ fn_call.fn = "arrow"
  /\ Returns("arrow", arrow(fn_call.args[1], fn_call.args[2],
                            fn_call.args[3], fn_call.args[4]))

NextFn ==
  \/ CallGrowth
  \/ CallStatus
  \/ CallInitial
  \/ CallRemaining
  \/ CallAllocation
  \/ CallSign
  \/ CallArrow

SpecFn == InitFn /\ [][NextFn]_vars

\* the call of f has returned
Returned(f) == fn_call.fn = f /\ fn_ret.done

(***************************************************************************)
(* Properties                                                              *)
(***************************************************************************)

\* C1: compute_remaining_dolphin returns gained = strip + expansion + distal
\* + extraction + growth_space and remaining = initial + gained, unclamped.
C1_BalanceLaw ==
  Returned("compute_remaining_dolphin") =>
    LET a == fn_call.args IN
      /\ fn_ret.value[1] = a[2] + a[3] + a[4] + a[5] + a[6]
      /\ fn_ret.value[2] = a[1] + a[2] + a[3] + a[4] + a[5] + a[6]

C1_Witness ==
  /\ Returned("compute_remaining_dolphin")
  /\ fn_call.args[1] < 0
  /\ fn_ret.value[1] > 0
  /\ fn_ret.value[2] > 0

\* the movement step of this pass has run
MovementDone == "L_remaining_33_R" \in DOMAIN locals

\* the ledger of this pass has run
LedgerDone == "remaining_33_R" \in DOMAIN locals

\* the Step 2 growth computation of this pass has run
GrowthDone == "growth_L_33" \in DOMAIN locals

\* half of the lower growth space of the inputs now in the session store
CurrentGrowth33 ==
  calculate_growth_space_equivalent(
    session_state["cvms_stage"], session_state["treatment_duration"],
    session_state["include_growth"], session_state["custom_sagittal"],
    session_state["custom_vertical"], session_state["custom_transverse"]
  ).lower_total \div 2

\* the 3-3 remaining discrepancy of the inputs now in the session store
CurrentRemaining33(sd) ==
  session_state[Key("ant_cs_33", sd)] + session_state[Key("cos_33", sd)]
    + (IF sd = "R" THEN 1 ELSE -1) * session_state["lower_dental_midline_mm"]
    + session_state[Key("inc_pos_33", sd)]
    + session_state[Key("strip_33", sd)] + session_state[Key("exp_33", sd)]
    + session_state[Key("ext_33", sd)] + CurrentGrowth33

\* the 7-7 value Step 2 stores, of the inputs now in the session store
CurrentStored77(sd) ==
  session_state[Key("ant_cs_33", sd)] + session_state[Key("cos_bicusp_77", sd)]
    + session_state[Key("cos_33", sd)]
    + (IF sd = "R" THEN 1 ELSE -1) * session_state["lower_dental_midline_mm"]
    + session_state[Key("inc_pos_33", sd)]
    + session_state[Key("strip_77", sd)] + session_state[Key("exp_77", sd)]
    + session_state[Key("dist_77", sd)] + session_state[Key("ext_77", sd)]

\* C2: in every pass the growth space is computed before the ledger and the
\* ledger before the movement step, and every remaining-discrepancy value the
\* movement step has read is the one this pass wrote from the current inputs,
\* never a value left over from an earlier pass.
C2_PassOrder ==
  /\ LedgerDone => GrowthDone
  /\ MovementDone => LedgerDone
  /\ MovementDone =>
       /\ locals["growth_L_33"] = CurrentGrowth33
       /\ locals["L_remaining_33_R"] = CurrentRemaining33("R")
       /\ locals["L_remaining_33_L"] = CurrentRemaining33("L")
       /\ locals["L_remaining_77_R"] = CurrentStored77("R")
       /\ locals["L_remaining_77_L"] = CurrentStored77("L")

C2_Witness ==
  /\ pc = "idle"
  /\ edits >= 2
  /\ MovementDone
  /\ session_state["ant_cs_33_R"] # 0
  /\ session_state["exp_77_L"] # 0

\* C3 as stated: for all four lower columns the value the movement step
\* consumes is the Remaining Discrepancy the ledger reports, initial + gained.
C3_ConsumedIsReported ==
  MovementDone =>
    /\ locals["remaining_33_R"] = locals["initial_33_R"] + locals["gained_33_R"]
    /\ locals["remaining_33_L"] = locals["initial_33_L"] + locals["gained_33_L"]
    /\ locals["remaining_77_R"] = locals["initial_77_R"] + locals["gained_77_R"]
    /\ locals["remaining_77_L"] = locals["initial_77_L"] + locals["gained_77_L"]
    /\ locals["L_remaining_33_R"] = locals["remaining_33_R"]
    /\ locals["L_remaining_33_L"] = locals["remaining_33_L"]
    /\ locals["L_remaining_77_R"] = locals["remaining_77_R"]
    /\ locals["L_remaining_77_L"] = locals["remaining_77_L"]

\* C3 as amended: for the 3-3 columns the value the movement step consumes is
\* the reported Remaining Discrepancy (initial + gained); for the 7-7 columns
\* it is the reported Remaining Discrepancy minus that side's C/S Molars value.
C3_ConsumedIsReportedLessMolars ==
  MovementDone =>
    /\ locals["remaining_33_R"] = locals["initial_33_R"] + locals["gained_33_R"]
    /\ locals["remaining_33_L"] = locals["initial_33_L"] + locals["gained_33_L"]
    /\ locals["remaining_77_R"] = locals["initial_77_R"] + locals["gained_77_R"]
    /\ locals["remaining_77_L"] = locals["initial_77_L"] + locals["gained_77_L"]
    /\ locals["L_remaining_33_R"] = locals["remaining_33_R"]
    /\ locals["L_remaining_33_L"] = locals["remaining_33_L"]
    /\ locals["L_remaining_77_R"] =
         locals["remaining_77_R"] - session_state["cos_molar_77_R"]
    /\ locals["L_remaining_77_L"] =
         locals["remaining_77_L"] - session_state["cos_molar_77_L"]

C3_Witness ==
  /\ pc = "idle"
  /\ MovementDone
  /\ session_state["cos_molar_77_R"] # 0
  /\ locals["L_remaining_77_R"] # locals["remaining_77_R"]

\* C4: with include_growth false calculate_growth_space_equivalent returns a
\* result, every field of which is 0, for every stage selector (known or
\* not), duration and custom rate triple.
C4_ToggleZeroes ==
  (Returned("calculate_growth_space_equivalent") /\ ~fn_call.args[3]) =>
    LET v == fn_ret.value IN
      /\ DOMAIN v = {"upper_total", "lower_total", "sagittal", "vertical",
                     "transverse", "upper_from_sagittal", "lower_from_sagittal",
                     "upper_from_transverse", "lower_from_transverse"}
      /\ \A f \in DOMAIN v : v[f] = 0

C4_Witness ==
  /\ Returned("calculate_growth_space_equivalent")
  /\ ~fn_call.args[3]
  /\ fn_call.args[1] = "CVMS 3"
  /\ fn_call.args[2] = 12
  /\ fn_ret.value.lower_total = 0

\* C5: in the crowding regime (remaining < 0) movement_sign gives every
\* Right-side tooth the negative sign (toward the patient's right) and every
\* Left-side tooth the positive sign (toward the patient's left).
C5_CrowdingOutward ==
  (Returned("movement_sign") /\ fn_call.args[1] < 0) =>
    /\ fn_call.args[2] = "Right" => fn_ret.value = -1
    /\ fn_call.args[2] = "Left" => fn_ret.value = 1

\* C6: in the spacing regime (remaining > 0) movement_sign points a molar
\* toward the midline (right molar positive, left molar negative) and a
\* canine or incisor away from it (right negative, left positive).
C6_SpacingMesialDistal ==
  (Returned("movement_sign") /\ fn_call.args[1] > 0) =>
    LET molar == fn_call.args[3] = "6"
        right == fn_call.args[2] = "Right"
    IN /\ (molar /\ right) => fn_ret.value = 1
       /\ (molar /\ ~right) => fn_ret.value = -1
       /\ (~molar /\ right) => fn_ret.value = -1
       /\ (~molar /\ ~right) => fn_ret.value = 1

\* C7: whenever a movement plan has been computed, the lower incisor entry is
\* the negated lower dental midline and the upper incisor entry the negated
\* upper dental midline, whatever the remaining discrepancies, the treatment
\* goal and the growth settings are.
C7_IncisorCancelsMidline ==
  MovementDone =>
    /\ locals["l_inc"] + session_state["lower_dental_midline_mm"] = 0
    /\ locals["u_inc"] + session_state["upper_midline_mm"] = 0

C7_Witness ==
  /\ pc = "idle"
  /\ MovementDone
  /\ session_state["lower_dental_midline_mm"] > 0
  /\ session_state["upper_midline_mm"] < 0
  /\ locals["l_inc"] < 0
  /\ locals["u_inc"] > 0
  /\ locals["L_remaining_33_R"] # 0

\* C8: for remaining < 0 expected_movement_allocation returns molar = canine
\* = incisor = |remaining| for every treatment goal.
C8_CrowdingUniform ==
  (Returned("expected_movement_allocation") /\ fn_call.args[1] < 0) =>
    /\ fn_ret.value.m6 = -fn_call.args[1]
    /\ fn_ret.value.c3 = -fn_call.args[1]
    /\ fn_ret.value.inc = -fn_call.args[1]

C8_Witness ==
  /\ Returned("expected_movement_allocation")
  /\ fn_call.args[1] = -3 * (MM \div 2)
  /\ fn_call.args[2] = "Class II"
  /\ fn_ret.value.m6 = 3 * (MM \div 2)

\* C9: for remaining > 0 and each of the three goals the allocation is molar =
\* remaining x posterior weight, incisor = remaining x anterior weight x 0.55,
\* canine = remaining x anterior weight x 0.45, with (anterior, posterior) =
\* (0.55, 0.45) for Class I, (0.65, 0.35) for Class II, (0.45, 0.55) for
\* Class III.
C9_SpacingWeights ==
  (/\ Returned("expected_movement_allocation")
   /\ fn_call.args[1] > 0
   /\ fn_call.args[2] \in {"Class I", "Class II", "Class III"}) =>
    LET r == fn_call.args[1]
        g == fn_call.args[2]
        ant == IF g = "Class I" THEN 55 ELSE IF g = "Class II" THEN 65 ELSE 45
        post == IF g = "Class I" THEN 45 ELSE IF g = "Class II" THEN 35 ELSE 55
    IN /\ 100 * fn_ret.value.m6 = post * r
       /\ 100 * 100 * fn_ret.value.inc = 55 * ant * r
       /\ 100 * 100 * fn_ret.value.c3 = 45 * ant * r

C9_Witness ==
  /\ Returned("expected_movement_allocation")
  /\ fn_call.args[1] = MM
  /\ fn_call.args[2] = "Class II"
  /\ fn_ret.value.m6 = Hundredths(35)
  /\ 100 * fn_ret.value.inc = Hundredths(3575)

\* C10: remaining_status returns the balanced label when |x| < 0.05, the
\* crowding label when x < -0.05 and the spacing label when x > 0.05; 0.049
\* and -0.049 are balanced, 0.051 is spacing and -0.051 is crowding.
C10_DeadBand ==
  Returned("remaining_status") =>
    LET x == fn_call.args[1] IN
      /\ (-Hundredths(5) < x /\ x < Hundredths(5)) => fn_ret.value = Balanced
      /\ x < -Hundredths(5) => fn_ret.value = Crowding
      /\ x > Hundredths(5) => fn_ret.value = Spacing
      /\ x \in {Thousandths(49), -Thousandths(49)} => fn_ret.value = Balanced
      /\ x = Thousandths(51) => fn_ret.value = Spacing
      /\ x = -Thousandths(51) => fn_ret.value = Crowding

C10_Witness ==
  /\ Returned("remaining_status")
  /\ fn_call.args[1] = Thousandths(51)
  /\ fn_ret.value = Spacing

\* a call of calculate_growth_space_equivalent with growth included has
\* returned a result
GrowthReturned ==
  /\ Returned("calculate_growth_space_equivalent")
  /\ fn_call.args[3]
  /\ "error" \notin DOMAIN fn_ret.value

\* the rate triple the call selects: the custom arguments for "Custom", the
\* table entry for a preset
SelectedRates ==
  IF fn_call.args[1] = "Custom"
  THEN [sagittal |-> fn_call.args[4], vertical |-> fn_call.args[5],
        transverse |-> fn_call.args[6]]
  ELSE GROWTH_DATA[fn_call.args[1]]

\* C11: with growth included, for sagittal rate r and duration m months the
\* result has upper_from_sagittal = 0.3 * r * (m / 12), lower_from_sagittal =
\* 0.7 * r * (m / 12), and the two sum to the total sagittal growth
\* r * (m / 12).
C11_SagittalSplit ==
  GrowthReturned =>
    LET v == fn_ret.value
        r == SelectedRates.sagittal
        m == fn_call.args[2]
    IN /\ 12 * 100 * v.upper_from_sagittal = 30 * r * m
       /\ 12 * 100 * v.lower_from_sagittal = 70 * r * m
       /\ v.upper_from_sagittal + v.lower_from_sagittal = v.sagittal
       /\ 12 * v.sagittal = r * m

C11_Witness ==
  /\ GrowthReturned
  /\ fn_call.args[1] = "CVMS 3"
  /\ fn_call.args[2] = 12
  /\ fn_ret.value.upper_from_sagittal = Times(Hundredths(375), 30)
  /\ fn_ret.value.lower_from_sagittal = Times(Hundredths(375), 70)

C13_OneRateSource ==
  GrowthReturned =>
    LET v == fn_ret.value
        a == fn_call.args
        m == fn_call.args[2]
    IN /\ a[1] = "Custom" =>
            /\ 12 * v.sagittal = a[4] * m
            /\ 12 * v.vertical = a[5] * m
            /\ 12 * v.transverse = a[6] * m
       /\ a[1] # "Custom" =>
            /\ 12 * v.sagittal = GROWTH_DATA[a[1]].sagittal * m
            /\ 12 * v.vertical = GROWTH_DATA[a[1]].vertical * m
            /\ 12 * v.transverse = GROWTH_DATA[a[1]].transverse * m
            /\ \A cs \in FnRates, cv \in FnRates, ct \in FnRates :
                 calculate_growth_space_equivalent(a[1], a[2], a[3], cs, cv, ct)
                   = v

C13_Witness ==
  /\ GrowthReturned
  /\ fn_call.args[1] = "Custom"
  /\ fn_call.args[2] = 6
  /\ fn_call.args[4] = Hundredths(125)
  /\ fn_call.args[5] = 0
  /\ fn_ret.value.sagittal = Hundredths(125) \div 2
  /\ fn_ret.value.vertical = 0

\* C14: for remaining > 0 and a treatment goal outside {Class I, Class II,
\* Class III} expected_movement_allocation ends in an error; it does not fall
\* back to a default weight pair and return numbers.
C14_UnknownGoalFails ==
  (/\ Returned("expected_movement_allocation")
   /\ fn_call.args[1] > 0
   /\ fn_call.args[2] \notin {"Class I", "Class II", "Class III"}) =>
    "error" \in DOMAIN fn_ret.value

\* C15 as stated: a stage key that is neither a GROWTH_DATA preset nor
\* "Custom" makes calculate_growth_space_equivalent end in an error, for every
\* duration and for both values of include_growth.
C15_UnknownStageFails ==
  (/\ Returned("calculate_growth_space_equivalent")
   /\ fn_call.args[1] \notin DOMAIN GROWTH_DATA) =>
    "error" \in DOMAIN fn_ret.value

\* C15 as amended: with include_growth true an unknown stage key makes
\* calculate_growth_space_equivalent end in an error for every duration; with
\* include_growth false the stage key is not looked up and the all-zero result
\* is returned.
C15_UnknownStageFailsWhenIncluded ==
  (/\ Returned("calculate_growth_space_equivalent")
   /\ fn_call.args[1] \notin DOMAIN GROWTH_DATA) =>
    IF fn_call.args[3]
    THEN fn_ret.value = KeyError
    ELSE /\ "error" \notin DOMAIN fn_ret.value
         /\ \A f \in DOMAIN fn_ret.value : fn_ret.value[f] = 0

C15_Witness ==
  /\ Returned("calculate_growth_space_equivalent")
  /\ fn_call.args[1] = "CVMS 7"
  /\ fn_call.args[2] = 12
  /\ fn_call.args[3]
  /\ fn_ret.value = KeyError

\* the ledger and movement values of side sd on the rendered page
Shown(sd) ==
  IF sd = "R"
  THEN [initial_33 |-> locals["initial_33_R"],
        initial_77 |-> locals["initial_77_R"],
        gained_33 |-> locals["gained_33_R"],
        gained_77 |-> locals["gained_77_R"],
        remaining_33 |-> locals["remaining_33_R"],
        remaining_77 |-> locals["remaining_77_R"],
        stored_77 |-> locals["L_remaining_77_R"],
        c3 |-> locals["l_r3"], m6 |-> locals["l_r6"],
        u6 |-> locals["u_r6"], u3 |-> locals["u_r3"]]
  ELSE [initial_33 |-> locals["initial_33_L"],
        initial_77 |-> locals["initial_77_L"],
        gained_33 |-> locals["gained_33_L"],
        gained_77 |-> locals["gained_77_L"],
        remaining_33 |-> locals["remaining_33_L"],
        remaining_77 |-> locals["remaining_77_L"],
        stored_77 |-> locals["L_remaining_77_L"],
        c3 |-> locals["l_l3"], m6 |-> locals["l_l6"],
        u6 |-> locals["u_l6"], u3 |-> locals["u_l3"]]

\* the inputs that belong to one side only, by side
SideInputs ==
  [sd \in Sides |->
     {Key(n, sd) : n \in {"ant_cs_33", "cos_bicusp_77", "cos_molar_77",
                          "cos_33", "inc_pos_33", "strip_33", "strip_77",
                          "exp_33", "exp_77", "dist_77", "ext_33", "ext_77",
                          "upper_extraction"}}
       \cup {IF sd = "R" THEN "r6_init" ELSE "l6_init"}]

OtherSide(sd) == IF sd = "R" THEN "L" ELSE "R"

\* the lower dental midline and the inputs of the growth total
MidlineAndGrowthKeys ==
  {"lower_dental_midline_mm", "include_growth", "cvms_stage",
   "treatment_duration", "custom_sagittal", "custom_vertical",
   "custom_transverse"}

\* this step is an edit of one of the keys ks
Edited(ks) ==
  /\ pc = "idle"
  /\ edits' = edits + 1
  /\ \E k \in ks : session_state'[k] # session_state[k]

\* this step is an edit of an input that belongs to neither side alone, and
\* it changes values of both sides
EditMovesBothSides ==
  /\ pc = "idle"
  /\ edits' = edits + 1
  /\ \A k \in SideInputs["R"] \cup SideInputs["L"] :
       session_state'[k] = session_state[k]
  /\ \A sd \in Sides :
       side_values(session_state', sd) # side_values(session_state, sd)

\* an edit of an input of one side only leaves the other side's values as
\* they were
OneSideEdit ==
  \A sd \in Sides :
    Edited(SideInputs[OtherSide(sd)]) =>
      side_values(session_state', sd) = side_values(session_state, sd)

\* the values a completed run has rendered are those of the inputs now in the
\* session store
ShownIsCurrent ==
  pc = "idle" => \A sd \in Sides : Shown(sd) = side_values(session_state, sd)

\* C16 as stated: an edit of an input that belongs to one side only leaves
\* every initial, gained, remaining and movement value of the other side
\* unchanged, and an edit that changes values of both sides is an edit of the
\* dental midline or of an input of the growth total.
C16_SidesIndependent ==
  /\ []ShownIsCurrent
  /\ [][OneSideEdit]_vars
  /\ [][EditMovesBothSides => Edited(MidlineAndGrowthKeys)]_vars

\* C16 as amended: an edit of an input that belongs to one side only leaves
\* every initial, gained, remaining and movement value of the other side
\* unchanged; the inputs that affect both sides are the dental midline, the
\* inputs of the growth total and the treatment goal (whose class adjustment
\* is added to the upper molar and canine movements of both sides).
C16_SidesIndependentButGoal ==
  /\ []ShownIsCurrent
  /\ [][OneSideEdit]_vars
  /\ [][EditMovesBothSides =>
          Edited(MidlineAndGrowthKeys \cup {"treat_to"})]_vars

C16_Witness ==
  /\ pc = "idle"
  /\ MovementDone
  /\ edits >= 2
  /\ session_state["dist_77_R"] # 0
  /\ session_state["r6_init"] # 0
  /\ locals["gained_77_R"] # 0
  /\ locals["gained_77_L"] = 0
  /\ locals["u_r6"] # locals["u_l6"]
  /\ locals["l_l6"] # locals["l_r6"]

\* C17: once the ledger of a pass has run, the stored upper remaining values
\* remaining_U_R and remaining_U_L have been recomputed from the upper growth
\* space equivalent (the upper arch has no other input), so that with a
\* non-zero upper growth space neither is left at its initial 0.
C17_UpperLedgerStored ==
  (/\ pc = "idle"
   /\ LedgerDone
   /\ locals["growth_calc"].upper_total # 0) =>
    /\ session_state["remaining_U_R"] # 0
    /\ session_state["remaining_U_L"] # 0

PassStages == {"start", "step2_growth", "step2_ledger", "step3"}

\* the session store holds every key the script initialises, each strip_77
\* is at least its strip_33, and the stored remaining values are those of the
\* inputs in the store
Settled ==
  /\ (DOMAIN Defaults \cup DOMAIN Step2Defaults \cup DOMAIN Step3Defaults)
       \subseteq DOMAIN session_state
  /\ \A sd \in Sides :
       /\ session_state[Key("strip_77", sd)] >= session_state[Key("strip_33", sd)]
       /\ session_state[Key("remaining_L", sd)] = CurrentRemaining33(sd)
       /\ session_state[Key("remaining_77", sd)] = CurrentStored77(sd)

\* C18: a run of the script that follows a completed run with no edit in
\* between leaves the whole session store unchanged and ends with the same
\* ledger values and the same ten movement values: every run ends with the
\* store settled, the only steps that change the store are an edit and a step
\* of a run on a store that is not settled, and the values a run ends with
\* are a function of the store alone.
C18_Idempotent ==
  /\ [](pc = "idle" => Settled)
  /\ [][\/ session_state' = session_state
        \/ pc = "idle" /\ edits' # edits
        \/ pc \in PassStages /\ ~Settled]_vars
  /\ [](pc = "idle" =>
          /\ \A sd \in Sides : Shown(sd) = side_values(session_state, sd)
          /\ locals["l_inc"] = -session_state["lower_dental_midline_mm"]
          /\ locals["u_inc"] = -session_state["upper_midline_mm"])

\* a step of a run with no edit before it: after the one edit, of strip_33_R,
\* strip_77_R has been raised by a completed run, and a further run is under
\* way on the settled store
C18_Witness ==
  /\ pc = "step2_growth"
  /\ edits = 1
  /\ Settled
  /\ session_state["strip_33_R"] > 0
  /\ session_state["strip_77_R"] = session_state["strip_33_R"]
  /\ session_state["remaining_L_R"] = CurrentRemaining33("R")

\* C19: compute_initial_discrepancy(a, b, c, d) returns a + b + c + d with
\* no clamping and no change of sign, for every combination of signs.
C19_InitialIsSum ==
  Returned("compute_initial_discrepancy") =>
    fn_ret.value =
      fn_call.args[1] + fn_call.args[2] + fn_call.args[3] + fn_call.args[4]

C19_Witness ==
  /\ Returned("compute_initial_discrepancy")
  /\ fn_call.args[1] < 0
  /\ fn_call.args[2] > 0
  /\ fn_call.args[3] < 0
  /\ fn_call.args[4] < 0
  /\ fn_ret.value = 2 * fn_call.args[1]

\* C20: for every remaining and each of the three goals
\* expected_movement_allocation returns a plan (no error); for remaining = 0
\* the plan is molar = canine = incisor = 0 for every goal; and
\* movement_sign(0, side, tooth) = 0 for every side and tooth type.
C20_ZeroPlan ==
  /\ (/\ Returned("expected_movement_allocation")
      /\ fn_call.args[2] \in {"Class I", "Class II", "Class III"}) =>
       /\ DOMAIN fn_ret.value = {"m6", "c3", "inc"}
       /\ \A f \in {"m6", "c3", "inc"} : fn_ret.value[f] \in Int
  /\ (Returned("expected_movement_allocation") /\ fn_call.args[1] = 0) =>
       /\ "error" \notin DOMAIN fn_ret.value
       /\ fn_ret.value.m6 = 0
       /\ fn_ret.value.c3 = 0
       /\ fn_ret.value.inc = 0
  /\ (Returned("movement_sign") /\ fn_call.args[1] = 0) => fn_ret.value = 0

C20_Witness ==
  /\ Returned("expected_movement_allocation")
  /\ fn_call.args[1] = 0
  /\ fn_call.args[2] = "Class III"
  /\ fn_ret.value = [m6 |-> 0, c3 |-> 0, inc |-> 0]

\* C21: with growth included and a duration of 0 months
\* calculate_growth_space_equivalent returns a result, not an error, with
\* sagittal = vertical = transverse = 0 and upper_total = lower_total = 0, for
\* every stage of the table and every custom rate triple.
C21_ZeroDuration ==
  (/\ Returned("calculate_growth_space_equivalent")
   /\ fn_call.args[3]
   /\ fn_call.args[2] = 0
   /\ fn_call.args[1] \in DOMAIN GROWTH_DATA) =>
    /\ "error" \notin DOMAIN fn_ret.value
    /\ fn_ret.value.sagittal = 0
    /\ fn_ret.value.vertical = 0
    /\ fn_ret.value.transverse = 0
    /\ fn_ret.value.upper_total = 0
    /\ fn_ret.value.lower_total = 0

C21_Witness ==
  /\ Returned("calculate_growth_space_equivalent")
  /\ fn_call.args[3]
  /\ fn_call.args[2] = 0
  /\ fn_call.args[1] = "Custom"
  /\ fn_call.args[4] > 0
  /\ fn_call.args[5] > 0
  /\ fn_call.args[6] > 0
  /\ fn_ret.value.lower_total = 0

\* C22: the Lower-Right example.  Components -3.0, -1.0, +0.5 and 0.0 give
\* initial -3.5; strip 0.5, expansion 1.0, distal 0, extraction 0 and growth
\* 0.5 give gained 2.0 and remaining -1.5; remaining_status(-1.5) is the
\* crowding label; allocating -1.5 with goal Class II gives molar = canine =
\* incisor = 1.5; and the sign of a Right-side tooth is negative.
C22_LowerRightScenario ==
  /\ (/\ Returned("compute_initial_discrepancy")
      /\ fn_call.args = <<-3 * MM, -MM, MM \div 2, 0>>) =>
       fn_ret.value = -7 * (MM \div 2)
  /\ (/\ Returned("compute_remaining_dolphin")
      /\ fn_call.args = <<-7 * (MM \div 2), MM \div 2, MM, 0, 0, MM \div 2>>) =>
       fn_ret.value = <<2 * MM, -3 * (MM \div 2)>>
  /\ (/\ Returned("remaining_status")
      /\ fn_call.args = <<-3 * (MM \div 2)>>) =>
       fn_ret.value = Crowding
  /\ (/\ Returned("expected_movement_allocation")
      /\ fn_call.args = <<-3 * (MM \div 2), "Class II">>) =>
       fn_ret.value = [m6 |-> 3 * (MM \div 2), c3 |-> 3 * (MM \div 2),
                       inc |-> 3 * (MM \div 2)]
  /\ (/\ Returned("movement_sign")
      /\ fn_call.args[1] = -3 * (MM \div 2)
      /\ fn_call.args[2] = "Right") =>
       fn_ret.value = -1

C22_Witness ==
  /\ Returned("compute_remaining_dolphin")
  /\ fn_call.args = <<-7 * (MM \div 2), MM \div 2, MM, 0, 0, MM \div 2>>
  /\ fn_ret.value[1] = 2 * MM
  /\ fn_ret.value[2] = -3 * (MM \div 2)

\* C23: in every pass the lower growth space equivalent lower_total is split
\* equally between the right and left 3-3 ledgers (each side's gained is its
\* procedure inputs plus lower_total / 2, and the two halves sum to
\* lower_total), the 7-7 gained totals are their procedure inputs with a
\* growth contribution of 0, and with include_growth false every lower gained
\* total is the sum of its procedure inputs only.
C23_GrowthSplit ==
  LedgerDone =>
    /\ locals["growth_L_total"] = locals["growth_calc"].lower_total
    /\ locals["growth_L_33"] + locals["growth_L_33"] = locals["growth_L_total"]
    /\ locals["growth_L_77"] = 0
    /\ \A sd \in Sides :
         LET procedures_33 ==
               session_state[Key("strip_33", sd)]
                 + session_state[Key("exp_33", sd)]
                 + session_state[Key("ext_33", sd)]
             procedures_77 ==
               session_state[Key("strip_77", sd)]
                 + session_state[Key("exp_77", sd)]
                 + session_state[Key("dist_77", sd)]
                 + session_state[Key("ext_77", sd)]
             gained_33_sd ==
               locals[IF sd = "R" THEN "gained_33_R" ELSE "gained_33_L"]
             gained_77_sd ==
               locals[IF sd = "R" THEN "gained_77_R" ELSE "gained_77_L"]
         IN /\ 2 * (gained_33_sd - procedures_33) = locals["growth_L_total"]
            /\ gained_77_sd = procedures_77
            /\ ~session_state["include_growth"] => gained_33_sd = procedures_33

C23_Witness ==
  /\ pc = "idle"
  /\ LedgerDone
  /\ session_state["include_growth"]
  /\ locals["growth_L_total"] > 0
  /\ session_state["exp_33_L"] # 0
  /\ session_state["dist_77_R"] # 0
  /\ locals["gained_33_L"] =
       session_state["exp_33_L"] + locals["growth_L_total"] \div 2
  /\ locals["gained_77_R"] = session_state["dist_77_R"]

\* a step of a run; the store already holds the stripping entries
RunStepOnStrips ==
  /\ pc \in PassStages
  /\ "strip_77_R" \in DOMAIN session_state

\* C24: where the 7-7 gained totals have been computed the 7-7 stripping value
\* of each side is at least its 3-3 stripping value; a run raises strip_77 to
\* strip_33 in the ledger step when strip_77 < strip_33 and leaves it as it
\* is otherwise, so a larger 7-7 value that was entered is preserved and a
\* lowered strip_33 never lowers strip_77.
C24_Strip77AtLeastStrip33 ==
  /\ [](LedgerDone =>
          \A sd \in Sides :
            /\ session_state[Key("strip_77", sd)]
                 >= session_state[Key("strip_33", sd)]
            /\ locals[IF sd = "R" THEN "gained_77_R" ELSE "gained_77_L"]
                 - session_state[Key("exp_77", sd)]
                 - session_state[Key("dist_77", sd)]
                 - session_state[Key("ext_77", sd)]
                 >= session_state[Key("strip_33", sd)])
  /\ [][RunStepOnStrips =>
          \A sd \in Sides :
            session_state'[Key("strip_77", sd)] =
              IF /\ pc = "step2_ledger"
                 /\ session_state[Key("strip_77", sd)]
                      < session_state[Key("strip_33", sd)]
              THEN session_state[Key("strip_33", sd)]
              ELSE session_state[Key("strip_77", sd)]]_vars

C24_Witness ==
  /\ pc = "idle"
  /\ LedgerDone
  /\ edits = 2
  /\ session_state["strip_33_R"] < 0
  /\ session_state["strip_77_R"] > 0
  /\ locals["gained_77_R"] = session_state["strip_77_R"]

\* C25: for each side and every treatment goal the final upper molar movement
\* minus the final upper canine movement is that side's upper extraction
\* space; with extraction space 0 the upper molar and canine of a side move
\* by the same amount.
C25_ExtractionSpaceCloses ==
  MovementDone =>
    /\ locals["u_r6"] - locals["u_r3"] = session_state["upper_extraction_R"]
    /\ locals["u_l6"] - locals["u_l3"] = session_state["upper_extraction_L"]
    /\ session_state["upper_extraction_R"] = 0 =>
         locals["u_r6"] = locals["u_r3"]
    /\ session_state["upper_extraction_L"] = 0 =>
         locals["u_l6"] = locals["u_l3"]

C25_Witness ==
  /\ pc = "idle"
  /\ MovementDone
  /\ session_state["treat_to"] = "Class III"
  /\ session_state["upper_extraction_R"] > 0
  /\ session_state["upper_extraction_L"] = 0
  /\ locals["u_r3"] < locals["u_r6"]
  /\ locals["u_l3"] = locals["u_l6"]

\* what the goal g adds relative to Class I: 7.0 for Class II, -6.0 for
\* Class III
GoalOffset(g) ==
  IF g = "Class II" THEN 7 * MM ELSE IF g = "Class III" THEN -6 * MM ELSE 0

\* this step is an edit of the treatment goal, and for each side it leaves
\* the lower canine and molar movements as they were and moves the upper
\* molar and canine movements by the difference of the goals' offsets
GoalEditMovesUpperOnly ==
  Edited({"treat_to"}) =>
    \A sd \in Sides :
      LET before == side_values(session_state, sd)
          after == side_values(session_state', sd)
          shift == GoalOffset(session_state'["treat_to"])
                     - GoalOffset(session_state["treat_to"])
      IN /\ after.c3 = before.c3
         /\ after.m6 = before.m6
         /\ after.u6 = before.u6 + shift
         /\ after.u3 = before.u3 + shift

\* C26: the treatment goal changes only the four upper molar and canine
\* entries of the plan.  Each of u_r6, u_l6, u_r3, u_l3 is its Class I value
\* plus 7.0 for Class II and plus -6.0 for Class III, and both incisor entries
\* and all lower entries are the same for all three goals.
C26_GoalMovesUpperOnly ==
  /\ [](MovementDone =>
          LET adj == GoalOffset(session_state["treat_to"]) IN
            /\ locals["l_inc"] = -session_state["lower_dental_midline_mm"]
            /\ locals["u_inc"] = -session_state["upper_midline_mm"]
            /\ locals["l_r3"] = session_state["remaining_L_R"]
            /\ locals["l_l3"] = session_state["remaining_L_L"]
            /\ locals["l_r6"] = session_state["remaining_77_R"]
            /\ locals["l_l6"] = session_state["remaining_77_L"]
            /\ locals["u_r6"] =
                 locals["l_r6"] - session_state["r6_init"] + adj
            /\ locals["u_l6"] =
                 locals["l_l6"] - session_state["l6_init"] + adj
            /\ locals["u_r3"] =
                 locals["l_r6"] - session_state["r6_init"]
                   - session_state["upper_extraction_R"] + adj
            /\ locals["u_l3"] =
                 locals["l_l6"] - session_state["l6_init"]
                   - session_state["upper_extraction_L"] + adj)
  /\ [][GoalEditMovesUpperOnly]_vars

C26_Witness ==
  /\ pc = "idle"
  /\ MovementDone
  /\ edits = 2
  /\ session_state["treat_to"] = "Class III"
  /\ session_state["r6_init"] # 0
  /\ locals["u_r6"] = locals["l_r6"] - session_state["r6_init"] - 6 * MM
  /\ locals["u_l3"] = locals["l_l6"] - 6 * MM

\* this step is an edit of a C/S Molars input: it moves the 7-7 initial and
\* remaining discrepancy of its side by the change of the input and leaves
\* the movements of both sides and both incisor entries as they were
MolarsEditMovesNoTooth ==
  \A sd \in Sides :
    Edited({Key("cos_molar_77", sd)}) =>
      LET before == side_values(session_state, sd)
          after == side_values(session_state', sd)
          other_before == side_values(session_state, OtherSide(sd))
          other_after == side_values(session_state', OtherSide(sd))
          change == session_state'[Key("cos_molar_77", sd)]
                      - session_state[Key("cos_molar_77", sd)]
      IN /\ after.initial_77 = before.initial_77 + change
         /\ after.remaining_77 = before.remaining_77 + change
         /\ after.c3 = before.c3 /\ after.m6 = before.m6
         /\ after.u6 = before.u6 /\ after.u3 = before.u3
         /\ other_after = other_before
         /\ midline_correction(session_state'["lower_dental_midline_mm"])
              = midline_correction(session_state["lower_dental_midline_mm"])
         /\ midline_correction(session_state'["upper_midline_mm"])
              = midline_correction(session_state["upper_midline_mm"])

\* C27: the C/S Molars input of a side is part of that side's displayed 7-7
\* initial and remaining discrepancy but of no tooth movement: the lower molar
\* movement of a side is its 7-7 remaining discrepancy minus its C/S Molars
\* value, and an edit of a C/S Molars input alone leaves all ten entries of
\* the movement plan unchanged.
C27_MolarsNotMoved ==
  /\ []ShownIsCurrent
  /\ [](MovementDone =>
          /\ locals["l_r6"] =
               locals["remaining_77_R"] - session_state["cos_molar_77_R"]
          /\ locals["l_l6"] =
               locals["remaining_77_L"] - session_state["cos_molar_77_L"]
          /\ locals["l_inc"] =
               midline_correction(session_state["lower_dental_midline_mm"])
          /\ locals["u_inc"] =
               midline_correction(session_state["upper_midline_mm"]))
  /\ [][MolarsEditMovesNoTooth]_vars

C27_Witness ==
  /\ pc = "idle"
  /\ MovementDone
  /\ edits >= 1
  /\ session_state["cos_molar_77_L"] < 0
  /\ locals["initial_77_L"] = session_state["cos_molar_77_L"]
  /\ locals["remaining_77_L"] = session_state["cos_molar_77_L"]
  /\ locals["l_l6"] = 0

\* C28: for each side of the lower arch the 3-3 initial discrepancy is the
\* side's crowding/spacing + curve of Spee + midline component (+midline on
\* the right, -midline on the left) + incisor position, and the 7-7 initial
\* discrepancy is that 3-3 sum plus the side's C/S Bicusp and C/S Molars
\* values, so each 3-3 component is counted in both sums.
C28_Initial77Includes33 ==
  LedgerDone =>
    /\ locals["initial_33_R"] =
         session_state["ant_cs_33_R"] + session_state["cos_33_R"]
           + session_state["lower_dental_midline_mm"]
           + session_state["inc_pos_33_R"]
    /\ locals["initial_33_L"] =
         session_state["ant_cs_33_L"] + session_state["cos_33_L"]
           - session_state["lower_dental_midline_mm"]
           + session_state["inc_pos_33_L"]
    /\ locals["initial_77_R"] =
         locals["initial_33_R"] + session_state["cos_bicusp_77_R"]
           + session_state["cos_molar_77_R"]
    /\ locals["initial_77_L"] =
         locals["initial_33_L"] + session_state["cos_bicusp_77_L"]
           + session_state["cos_molar_77_L"]

C28_Witness ==
  /\ pc = "idle"
  /\ LedgerDone
  /\ session_state["lower_dental_midline_mm"] > 0
  /\ session_state["cos_bicusp_77_L"] > 0
  /\ locals["initial_33_R"] = session_state["lower_dental_midline_mm"]
  /\ locals["initial_33_L"] = -session_state["lower_dental_midline_mm"]
  /\ locals["initial_77_L"] = 0

\* the inputs of the growth computation
GrowthKeys ==
  {"include_growth", "cvms_stage", "treatment_duration", "custom_sagittal",
   "custom_vertical", "custom_transverse"}

\* half of the lower growth space of the inputs in the store s
GrowthHalf(s) == growth_calc_of(s, s["include_growth"]).lower_total \div 2

\* this step is an edit of a growth input: for each side it moves the lower
\* canine movement by the change of lower_total / 2 and leaves the lower
\* molar, the upper molar and the upper canine movements as they were
GrowthEditMovesLowerCanines ==
  Edited(GrowthKeys) =>
    \A sd \in Sides :
      LET before == side_values(session_state, sd)
          after == side_values(session_state', sd)
      IN /\ after.c3 - before.c3
              = GrowthHalf(session_state') - GrowthHalf(session_state)
         /\ after.m6 = before.m6
         /\ after.u6 = before.u6
         /\ after.u3 = before.u3

\* C29: growth reaches the movement plan only through the lower canines.  An
\* edit of the include-growth toggle, the growth stage, a custom rate or the
\* treatment duration changes l_r3 and l_l3 by the change of lower_total / 2
\* and nothing else: the lower molar entries are the stored 7-7 values, which
\* hold no growth, the upper molar and canine entries follow the lower molar
\* entries, and the incisor entries are the negated midlines.
C29_GrowthOnlyLowerCanines ==
  /\ [](MovementDone =>
          /\ locals["l_r3"] = CurrentRemaining33("R")
          /\ locals["l_l3"] = CurrentRemaining33("L")
          /\ locals["l_r6"] = CurrentStored77("R")
          /\ locals["l_l6"] = CurrentStored77("L")
          /\ locals["u_r6"] - locals["u_r3"]
               = session_state["upper_extraction_R"]
          /\ locals["u_l6"] - locals["u_l3"]
               = session_state["upper_extraction_L"]
          /\ locals["u_r6"] = CurrentStored77("R") - session_state["r6_init"]
               + GoalOffset(session_state["treat_to"])
          /\ locals["u_l6"] = CurrentStored77("L") - session_state["l6_init"]
               + GoalOffset(session_state["treat_to"])
          /\ locals["l_inc"] = -session_state["lower_dental_midline_mm"]
          /\ locals["u_inc"] = -session_state["upper_midline_mm"])
  /\ [][GrowthEditMovesLowerCanines]_vars

C29_Witness ==
  /\ pc = "idle"
  /\ MovementDone
  /\ edits = 2
  /\ session_state["cvms_stage"] = "CVMS 5"
  /\ session_state["treatment_duration"] = 12
  /\ locals["l_r3"] = (Times(Hundredths(100), 70) + 2 * Hundredths(75)) \div 2
  /\ locals["l_l3"] = locals["l_r3"]
  /\ locals["l_r6"] = 0
  /\ locals["u_l3"] = 0

\* C30: in the proposed-movement diagram, where the patient's left is the
\* right of the screen (L3 and L6 are drawn at the larger x), the arrow of
\* each of the five tooth positions points toward the patient's left (x2 >
\* x1) for a positive value and toward the patient's right (x2 < x1) for a
\* negative value, and a value with |v| < 0.05 has no arrow.
C30_ArrowFollowsConvention ==
  Returned("arrow") =>
    LET v == fn_call.args[3] IN
      /\ abs(v) < Hundredths(5) => ~fn_ret.value.drawn
      /\ v >= Hundredths(5) =>
           /\ fn_ret.value.drawn
           /\ fn_ret.value.x2 > fn_ret.value.x1
      /\ v <= -Hundredths(5) =>
           /\ fn_ret.value.drawn
           /\ fn_ret.value.x2 < fn_ret.value.x1

====
